---- MODULE Spec2Model ----
(***************************************************************************)
(* Model of juniper-relay-helpers: the cursor codec (cursors.rs), the page *)
(* request (pagination.rs), the two cursor providers (cursor_provider.rs), *)
(* the generated connection/edge constructors (codegen lib.rs) and the     *)
(* example resolvers that walk a result set (schema/mod.rs).               *)
(*                                                                         *)
(* Strings are sequences of bytes (naturals 0..255), so that formatting,   *)
(* parsing, splitting and base64 are computed, not assumed.                *)
(***************************************************************************)
EXTENDS Integers, Sequences, FiniteSets, TLC

\* ------------------------------------------------------------------------
\* Bounds of the model (not program constants)
\* ------------------------------------------------------------------------

\* longest StringCursor value a client encodes
MaxValueLen == 3

\* largest small offset a client encodes (the extremes are added apart)
MaxOffset == 6

\* most "||"-separated segments in a raw token crafted by a client
MaxSegments == 4

\* longest node list handed to a provider or to RelayConnection::new
MaxItems == 2

\* largest total_count handed to a provider
MaxTotalCount == 2

\* largest small `first` of a page request handed to a provider
MaxFirstArg == 2

\* largest result set of the example "database" walked by a client
MaxTotal == 6

\* largest page size a walking client asks for
MaxFirst == 4

\* ------------------------------------------------------------------------
\* Value shapes: Option<T>, Result<T, E> and a panic (unwinding) outcome
\* ------------------------------------------------------------------------

None == [some |-> FALSE]

Some(x) == [some |-> TRUE, v |-> x]

Ok(x) == [kind |-> "Ok", val |-> x]

Err(e) == [kind |-> "Err", err |-> e]

Panic == [kind |-> "Panic"]

\* Option::unwrap_or / Result::unwrap_or on a parse result
UnwrapOr(opt, default) == IF opt.some THEN opt.v ELSE default

\* the error kinds of CursorError
InvalidCursor == "InvalidCursor"

Base64DecodeError == "Base64DecodeError"

Utf8DecodeError == "Utf8DecodeError"

CursorError == {InvalidCursor, Base64DecodeError, Utf8DecodeError}

\* ------------------------------------------------------------------------
\* Machine integers (i32 fields of OffsetCursor, PageRequest, metadata)
\* ------------------------------------------------------------------------

I32Max == 2147483647

I32Min == -I32Max - 1

\* i32 addition. The sum is never formed when it leaves the range: with
\* overflow checks (debug profile) the addition panics, without them
\* (release profile) it wraps modulo 2^32.
AddI32(a, b, checks) ==
    IF b > 0 /\ a > I32Max - b
    THEN IF checks THEN Panic ELSE Ok((a + I32Min) + (b + I32Min))
    ELSE IF b < 0 /\ a < I32Min - b
    THEN IF checks THEN Panic ELSE Ok((a + I32Max + 1) + (b + I32Max + 1))
    ELSE Ok(a + b)

\* usize::MAX as seen through `as i32` (all bits set)
USizeMaxAsI32 == -1

\* items.len() - 1 in usize arithmetic: on an empty slice the subtraction
\* overflows, which panics with overflow checks and wraps to usize::MAX
\* without them
LenMinusOne(len, checks) ==
    IF len = 0
    THEN IF checks THEN Panic ELSE Ok(USizeMaxAsI32)
    ELSE Ok(len - 1)

\* ------------------------------------------------------------------------
\* Text: bytes, decimal formatting and parsing, splitting
\* ------------------------------------------------------------------------

IsDigit(b) == 48 <= b /\ b <= 57

RECURSIVE FmtNat(_)
\* decimal digits of a natural number, most significant first
FmtNat(n) ==
    IF n < 10 THEN <<48 + n>>
    ELSE Append(FmtNat(n \div 10), 48 + (n % 10))

RECURSIVE FmtNeg(_)
\* decimal digits of the magnitude of a negative number (i32::MIN has no
\* positive counterpart, so the digits are taken from the negative value)
FmtNeg(n) ==
    LET r  == n % 10
        qt == IF r = 0 THEN n \div 10 ELSE (n \div 10) + 1
        d  == IF r = 0 THEN 0 ELSE 10 - r
    IN IF n > -10 THEN <<48 - n>>
       ELSE Append(FmtNeg(qt), 48 + d)

\* Display for i32 as used by format!("{}", n)
FmtI32(n) == IF n < 0 THEN <<45>> \o FmtNeg(n) ELSE FmtNat(n)

RECURSIVE ParseDigits(_, _, _)
\* the digit loop of i32::from_str: the accumulator grows upwards for a
\* positive number and downwards for a negative one, and a step that would
\* leave the i32 range, or a byte that is not a digit, fails
ParseDigits(s, acc, neg) ==
    IF s = <<>> THEN Some(acc)
    ELSE IF ~IsDigit(Head(s)) THEN None
    ELSE LET d == Head(s) - 48 IN
         IF neg
         THEN IF acc = I32Min THEN None
              ELSE IF -acc > (I32Max - (IF d > 0 THEN d - 1 ELSE 0)) \div 10
                   THEN None
                   ELSE ParseDigits(Tail(s), acc * 10 - d, neg)
         ELSE IF acc > (I32Max - d) \div 10 THEN None
              ELSE ParseDigits(Tail(s), acc * 10 + d, neg)

\* str::parse::<i32>: optional sign, then at least one digit, only digits,
\* value within the i32 range; None stands for Err(ParseIntError)
ParseI32(s) ==
    IF s = <<>> THEN None
    ELSE IF Head(s) = 45
         THEN IF Tail(s) = <<>> THEN None ELSE ParseDigits(Tail(s), 0, TRUE)
    ELSE IF Head(s) = 43
         THEN IF Tail(s) = <<>> THEN None ELSE ParseDigits(Tail(s), 0, FALSE)
    ELSE ParseDigits(s, 0, FALSE)

\* const CURSOR_SEGMENT_DELIMITER: &str = "||"
CURSOR_SEGMENT_DELIMITER == <<124, 124>>

StartsWith(s, p) == Len(s) >= Len(p) /\ SubSeq(s, 1, Len(p)) = p

RECURSIVE SplitFrom(_, _, _)
\* str::split(delim): leftmost non-overlapping matches; cur is the segment
\* being collected
SplitFrom(s, delim, cur) ==
    IF s = <<>> THEN <<cur>>
    ELSE IF StartsWith(s, delim)
         THEN <<cur>> \o SplitFrom(SubSeq(s, Len(delim) + 1, Len(s)), delim, <<>>)
         ELSE SplitFrom(Tail(s), delim, Append(cur, Head(s)))

Split(s, delim) == SplitFrom(s, delim, <<>>)

IsCont(b) == 128 <= b /\ b <= 191

RECURSIVE ValidUtf8(_)
\* String::from_utf8 accepts exactly the well-formed UTF-8 byte sequences
ValidUtf8(s) ==
    IF s = <<>> THEN TRUE
    ELSE LET b == Head(s) IN
         IF b < 128 THEN ValidUtf8(Tail(s))
         ELSE IF 194 <= b /\ b <= 223
              THEN Len(s) >= 2 /\ IsCont(s[2])
                   /\ ValidUtf8(SubSeq(s, 3, Len(s)))
         ELSE IF 224 <= b /\ b <= 239
              THEN Len(s) >= 3 /\ IsCont(s[2]) /\ IsCont(s[3])
                   /\ (b = 224 => s[2] >= 160)
                   /\ (b = 237 => s[2] <= 159)
                   /\ ValidUtf8(SubSeq(s, 4, Len(s)))
         ELSE IF 240 <= b /\ b <= 244
              THEN Len(s) >= 4 /\ IsCont(s[2]) /\ IsCont(s[3]) /\ IsCont(s[4])
                   /\ (b = 240 => s[2] >= 144)
                   /\ (b = 244 => s[2] <= 143)
                   /\ ValidUtf8(SubSeq(s, 5, Len(s)))
         ELSE FALSE

\* ------------------------------------------------------------------------
\* base64, URL-safe alphabet, canonical padding (BASE64_URL_SAFE)
\* ------------------------------------------------------------------------

\* the symbol of a 6-bit value: A-Z a-z 0-9 - _
B64Sym(v) ==
    IF v < 26 THEN 65 + v
    ELSE IF v < 52 THEN 97 + (v - 26)
    ELSE IF v < 62 THEN 48 + (v - 52)
    ELSE IF v = 62 THEN 45
    ELSE 95

\* the 6-bit value of a symbol, -1 for a byte outside the alphabet
B64Val(c) ==
    IF 65 <= c /\ c <= 90 THEN c - 65
    ELSE IF 97 <= c /\ c <= 122 THEN c - 97 + 26
    ELSE IF IsDigit(c) THEN c - 48 + 52
    ELSE IF c = 45 THEN 62
    ELSE IF c = 95 THEN 63
    ELSE -1

RECURSIVE B64Encode(_)
\* Engine::encode: three bytes to four symbols, '=' padding on the last group
B64Encode(bs) ==
    IF bs = <<>> THEN <<>>
    ELSE IF Len(bs) = 1 THEN
        <<B64Sym(bs[1] \div 4), B64Sym((bs[1] % 4) * 16), 61, 61>>
    ELSE IF Len(bs) = 2 THEN
        <<B64Sym(bs[1] \div 4),
          B64Sym((bs[1] % 4) * 16 + bs[2] \div 16),
          B64Sym((bs[2] % 16) * 4), 61>>
    ELSE
        <<B64Sym(bs[1] \div 4),
          B64Sym((bs[1] % 4) * 16 + bs[2] \div 16),
          B64Sym((bs[2] % 16) * 4 + bs[3] \div 64),
          B64Sym(bs[3] % 64)>> \o B64Encode(SubSeq(bs, 4, Len(bs)))

RECURSIVE B64Decode(_)
\* Engine::decode: None stands for a DecodeError (bad length, bad symbol,
\* misplaced or missing padding, non-zero trailing bits)
B64Decode(cs) ==
    IF cs = <<>> THEN Some(<<>>)
    ELSE IF Len(cs) < 4 THEN None
    ELSE LET a == B64Val(cs[1])
             b == B64Val(cs[2])
             c == B64Val(cs[3])
             d == B64Val(cs[4])
             last == Len(cs) = 4
         IN IF a < 0 \/ b < 0 THEN None
            ELSE IF last /\ cs[3] = 61 /\ cs[4] = 61 THEN
                IF b % 16 = 0 THEN Some(<<a * 4 + b \div 16>>) ELSE None
            ELSE IF c < 0 THEN None
            ELSE IF last /\ cs[4] = 61 THEN
                IF c % 4 = 0
                THEN Some(<<a * 4 + b \div 16, (b % 16) * 16 + c \div 4>>)
                ELSE None
            ELSE IF d < 0 THEN None
            ELSE LET rest == B64Decode(SubSeq(cs, 5, Len(cs))) IN
                 IF rest.some
                 THEN Some(<<a * 4 + b \div 16, (b % 16) * 16 + c \div 4,
                             (c % 4) * 64 + d>> \o rest.v)
                 ELSE None

\* ------------------------------------------------------------------------
\* The build profile: whether integer overflow checks are compiled in
\* (debug: yes, release: no). It decides what an overflowing addition or
\* subtraction does.
\* ------------------------------------------------------------------------

VARIABLE overflow_checks

\* ------------------------------------------------------------------------
\* Cursors (cursors.rs)
\* ------------------------------------------------------------------------

\* "offset" and "string", the kind tags written by to_raw_string
TagOffset == <<111, 102, 102, 115, 101, 116>>

TagString == <<115, 116, 114, 105, 110, 103>>

\* OffsetCursor::new(offset, first), the inherent constructor
OffsetCursor(offset, first) ==
    [type |-> "OffsetCursor", offset |-> offset, first |-> first]

\* OffsetCursor::default()
OffsetCursor_default == OffsetCursor(0, None)

\* StringCursor::new(value), the inherent constructor
StringCursor(value) == [type |-> "StringCursor", value |-> value]

\* OffsetCursor_to_raw_string as it would be with the one-character
\* delimiter ":" of the older wire format
OffsetCursor_to_raw_string_colon(c) ==
    IF c.first.some
    THEN TagOffset \o <<58>> \o FmtI32(c.offset) \o <<58>> \o FmtI32(c.first.v)
    ELSE TagOffset \o <<58>> \o FmtI32(c.offset)

\* <OffsetCursor as Cursor>::to_raw_string
OffsetCursor_to_raw_string(c) ==
    IF c.first.some
    THEN TagOffset \o CURSOR_SEGMENT_DELIMITER \o FmtI32(c.offset)
           \o CURSOR_SEGMENT_DELIMITER \o FmtI32(c.first.v)
    ELSE TagOffset \o CURSOR_SEGMENT_DELIMITER \o FmtI32(c.offset)

\* OffsetCursor_new as it would be if the third segment were never read
OffsetCursor_new_first_ignored(raw, parts) ==
    IF Len(parts) # 2 /\ Len(parts) # 3 THEN Err(InvalidCursor)
    ELSE Ok(OffsetCursor(UnwrapOr(ParseI32(parts[2]), 0), None))

\* OffsetCursor_new as it would be if the kind tag were not counted among
\* the segments: two or three segments after it
OffsetCursor_new_after_tag(raw, parts) ==
    IF Len(parts) # 3 /\ Len(parts) # 4 THEN Err(InvalidCursor)
    ELSE Ok(OffsetCursor(
                UnwrapOr(ParseI32(parts[2]), 0),
                IF Len(parts) = 3 THEN None ELSE ParseI32(parts[3])))

\* OffsetCursor_new as it would be if an unparsable field were an error
\* (`?` on the parse results)
OffsetCursor_new_strict(raw, parts) ==
    IF Len(parts) # 2 /\ Len(parts) # 3 THEN Err(InvalidCursor)
    ELSE IF ~ParseI32(parts[2]).some THEN Err(InvalidCursor)
    ELSE IF Len(parts) = 3 /\ ~ParseI32(parts[3]).some THEN Err(InvalidCursor)
    ELSE Ok(OffsetCursor(
                ParseI32(parts[2]).v,
                IF Len(parts) = 2 THEN None ELSE ParseI32(parts[3])))

\* <OffsetCursor as Cursor>::new(raw, parts)
OffsetCursor_new(raw, parts) ==
    IF Len(parts) # 2 /\ Len(parts) # 3 THEN Err(InvalidCursor)
    ELSE Ok(OffsetCursor(
                UnwrapOr(ParseI32(parts[2]), 0),
                IF Len(parts) = 2 THEN None ELSE ParseI32(parts[3])))

StringCursor_to_raw_string(c) ==
    TagString \o CURSOR_SEGMENT_DELIMITER \o c.value

\* <StringCursor as Cursor>::new(raw, parts): parts[1] is indexed without a
\* length check, which panics when the raw string holds no delimiter
StringCursor_new(raw, parts) ==
    IF Len(parts) < 2 THEN Panic
    ELSE Ok(StringCursor(parts[2]))

to_raw_string(c) ==
    IF c.type = "OffsetCursor" THEN OffsetCursor_to_raw_string(c)
    ELSE StringCursor_to_raw_string(c)

\* Cursor::to_encoded_string
to_encoded_string(c) == B64Encode(to_raw_string(c))

\* Display for the two cursors
to_string(c) == to_raw_string(c)

\* Self::new(raw, parts) for the cursor type T
Cursor_new(T, raw, parts) ==
    IF T = "OffsetCursor" THEN OffsetCursor_new(raw, parts)
    ELSE StringCursor_new(raw, parts)

\* Cursor::from_encoded_string from its second statement on: `decoded` is
\* the outcome of the base64 decoding, and each `?` returns the error
FromDecoded(T, decoded) ==
    IF ~decoded.some THEN Err(Base64DecodeError)
    ELSE IF ~ValidUtf8(decoded.v) THEN Err(Utf8DecodeError)
    ELSE Cursor_new(T, decoded.v, Split(decoded.v, CURSOR_SEGMENT_DELIMITER))

\* Cursor::from_encoded_string for the cursor type T
from_encoded_string(T, input) == FromDecoded(T, B64Decode(input))

\* cursor_from_encoded_string::<T>: the `?` passes an error on unchanged
cursor_from_encoded_string(T, input) == from_encoded_string(T, input)

\* ------------------------------------------------------------------------
\* Page requests (pagination.rs)
\* ------------------------------------------------------------------------

PageInfo(has_next_page, has_prev_page, start_cursor, end_cursor) ==
    [has_next_page |-> has_next_page, has_prev_page |-> has_prev_page,
     start_cursor |-> start_cursor, end_cursor |-> end_cursor]

PageRequest(first, after) == [first |-> first, after |-> after]

\* PageRequest_new as it would be if `after` were stored in its raw form,
\* without the base64 step
PageRequest_new_raw(first, after) ==
    PageRequest(first,
                IF after.some THEN Some(to_raw_string(after.v)) ELSE None)

\* PageRequest::new(first, after: Option<impl Cursor>)
PageRequest_new(first, after) ==
    PageRequest(first,
                IF after.some THEN Some(to_encoded_string(after.v)) ELSE None)

\* Ok(Some(decoded_cursor)), or the error that `?` returns (a panic
\* unwinds through it)
OkSome(decoded_cursor) ==
    IF decoded_cursor.kind = "Ok" THEN Ok(Some(decoded_cursor.val))
    ELSE decoded_cursor

\* PageRequest::parsed_cursor::<T>
parsed_cursor(T, pr) ==
    IF ~pr.after.some THEN Ok(None)
    ELSE OkSome(cursor_from_encoded_string(T, pr.after.v))

\* ------------------------------------------------------------------------
\* Cursor providers (cursor_provider.rs)
\* ------------------------------------------------------------------------

PaginationMetadata(total_count, page_request) ==
    [total_count |-> total_count, page_request |-> page_request]

\* CursorByKey::cursor_key of an item (the test item and the example
\* Location both return their id)
cursor_key(item) == item.id

\* the arms of `match pr.parsed_cursor()`: the decoded cursor in the
\* Ok(Some(cc)) arm, the default cursor in the Ok(None) and Err(_) arms
MatchParsedCursor(c) ==
    IF c.kind = "Ok" /\ c.val.some THEN c.val.v ELSE OffsetCursor_default

\* whether `match pr.parsed_cursor()` takes the Ok(Some(cc)) arm
MatchedSome(c) == c.kind = "Ok" /\ c.val.some

\* current_cursor in both methods of the offset provider: the decoded
\* `after`, or the default cursor when the page request or its `after` is
\* absent or does not decode
OffsetCurrentCursor(metadata) ==
    IF ~metadata.page_request.some THEN OffsetCursor_default
    ELSE MatchParsedCursor(
             parsed_cursor("OffsetCursor", metadata.page_request.v))

\* OffsetAdjust as it would be if the Some(cc) arm forgot to set it
OffsetAdjust_never(metadata) == 0

\* offset_adjust: 1 exactly in the Some(cc) arm of the match
OffsetAdjust(metadata) ==
    IF ~metadata.page_request.some THEN 0
    ELSE IF MatchedSome(parsed_cursor("OffsetCursor", metadata.page_request.v))
         THEN 1 ELSE 0

\* `sum + c` where the sum may already have panicked
AddToSum(sum, c, checks) ==
    IF sum.kind = "Panic" THEN Panic ELSE AddI32(sum.val, c, checks)

\* OffsetCursor { offset, first } where computing the offset may have
\* panicked
OffsetCursorAt(offset, first) ==
    IF offset.kind = "Panic" THEN Panic
    ELSE Ok(OffsetCursor(offset.val, first))

\* the struct expression that ends get_cursor_for_item:
\* offset: current_cursor.offset + offset_adjust + item_idx
ItemCursor(current_cursor, offset_adjust, item_idx) ==
    OffsetCursorAt(
        AddToSum(AddI32(current_cursor.offset, offset_adjust, overflow_checks),
                 item_idx, overflow_checks),
        current_cursor.first)

\* OffsetCursorProvider::get_cursor_for_item
OffsetCursorProvider_get_cursor_for_item(metadata, item_idx, item) ==
    ItemCursor(OffsetCurrentCursor(metadata), OffsetAdjust(metadata), item_idx)

\* `current_cursor.offset + first < metadata.total_count`
SumBelow(sum, total_count) ==
    IF sum.kind = "Panic" THEN Panic ELSE Ok(sum.val < total_count)

\* the has_next_page computation of OffsetCursorProvider::get_page_info
OffsetHasNextPage(metadata) ==
    IF metadata.page_request.some
    THEN IF metadata.page_request.v.first.some
         THEN SumBelow(AddI32(OffsetCurrentCursor(metadata).offset,
                              metadata.page_request.v.first.v,
                              overflow_checks),
                       metadata.total_count)
         ELSE Ok(FALSE)
    ELSE Ok(FALSE)

\* Some(cursor.to_encoded_string()) of a cursor that get_cursor_for_item
\* returned (the caller has checked that it did return)
EncodedSome(c) == Some(to_encoded_string(c.val))

\* PageInfoBetween as it would be if the two boundary cursors were swapped
PageInfoBetween_swapped(has_next_page, has_prev_page, sc, ec) ==
    IF sc.kind = "Panic" \/ ec.kind = "Panic" THEN Panic
    ELSE Ok(PageInfo(has_next_page, has_prev_page,
                     EncodedSome(ec), EncodedSome(sc)))

\* the PageInfo struct expression of get_page_info for a non-empty slice,
\* given the outcomes of the two get_cursor_for_item calls
PageInfoBetween(has_next_page, has_prev_page, sc, ec) ==
    IF sc.kind = "Panic" \/ ec.kind = "Panic" THEN Panic
    ELSE Ok(PageInfo(has_next_page, has_prev_page,
                     EncodedSome(sc), EncodedSome(ec)))

\* OffsetPageInfo as it would be if the start cursor were taken at index 1
OffsetPageInfo_start_at_one(metadata, items, has_next_page, has_prev_page, last_index) ==
    IF has_next_page.kind = "Panic" THEN Panic
    ELSE IF last_index.kind = "Panic" THEN Panic
    ELSE IF items = <<>>
         THEN Ok(PageInfo(has_next_page.val, has_prev_page, None, None))
    ELSE PageInfoBetween(
             has_next_page.val, has_prev_page,
             OffsetCursorProvider_get_cursor_for_item(metadata, 1, items[1]),
             OffsetCursorProvider_get_cursor_for_item(
                 metadata, last_index.val, items[last_index.val + 1]))

\* OffsetCursorProvider::get_page_info after has_next_page and last_index
\* have been computed, in the order of the source
OffsetPageInfo(metadata, items, has_next_page, has_prev_page, last_index) ==
    IF has_next_page.kind = "Panic" THEN Panic
    ELSE IF last_index.kind = "Panic" THEN Panic
    ELSE IF items = <<>>
         THEN Ok(PageInfo(has_next_page.val, has_prev_page, None, None))
    ELSE PageInfoBetween(
             has_next_page.val, has_prev_page,
             OffsetCursorProvider_get_cursor_for_item(metadata, 0, items[1]),
             OffsetCursorProvider_get_cursor_for_item(
                 metadata, last_index.val, items[last_index.val + 1]))

\* OffsetCursorProvider_get_page_info as it would be if has_prev_page were
\* `current_cursor.offset >= 0`
OffsetCursorProvider_get_page_info_prev_at_zero(metadata, items) ==
    OffsetPageInfo(metadata, items,
                   OffsetHasNextPage(metadata),
                   OffsetCurrentCursor(metadata).offset >= 0,
                   LenMinusOne(Len(items), overflow_checks))

\* OffsetCursorProvider::get_page_info
OffsetCursorProvider_get_page_info(metadata, items) ==
    OffsetPageInfo(metadata, items,
                   OffsetHasNextPage(metadata),
                   OffsetCurrentCursor(metadata).offset > 0,
                   LenMinusOne(Len(items), overflow_checks))

\* KeyedCursorProvider_get_cursor_for_item as it would be if the index
\* were made part of the cursor value
KeyedCursorProvider_get_cursor_for_item_indexed(metadata, item_idx, item) ==
    Ok(StringCursor(cursor_key(item) \o <<45>> \o FmtI32(item_idx)))

\* KeyedCursorProvider::get_cursor_for_item
KeyedCursorProvider_get_cursor_for_item(metadata, item_idx, item) ==
    Ok(StringCursor(cursor_key(item)))

\* first_item_cursor in KeyedCursorProvider::get_page_info
KeyedFirstItemCursor(metadata, items) ==
    IF items # <<>>
    THEN EncodedSome(KeyedCursorProvider_get_cursor_for_item(
                         metadata, 0, items[1]))
    ELSE None

\* KeyedLastItemCursor as it would be if it took items.first() again
KeyedLastItemCursor_first(metadata, items) ==
    IF items # <<>>
    THEN EncodedSome(KeyedCursorProvider_get_cursor_for_item(
                         metadata, 0, items[1]))
    ELSE None

\* last_item_cursor in KeyedCursorProvider::get_page_info
KeyedLastItemCursor(metadata, items) ==
    IF items # <<>>
    THEN EncodedSome(KeyedCursorProvider_get_cursor_for_item(
                         metadata, Len(items) - 1, items[Len(items)]))
    ELSE None

\* KeyedCursorProvider_get_page_info as it would be if the flags were
\* derived as in the offset provider: previous page from the decoded
\* offset, next page from `first` and total_count
KeyedCursorProvider_get_page_info_offset_flags(metadata, items) ==
    Ok(PageInfo(/\ metadata.page_request.some
                /\ metadata.page_request.v.first.some
                /\ metadata.page_request.v.first.v < metadata.total_count,
                OffsetCurrentCursor(metadata).offset > 0,
                KeyedFirstItemCursor(metadata, items),
                KeyedLastItemCursor(metadata, items)))

\* KeyedCursorProvider::get_page_info
KeyedCursorProvider_get_page_info(metadata, items) ==
    Ok(PageInfo(items # <<>>,
                metadata.page_request.some /\ metadata.page_request.v.after.some,
                KeyedFirstItemCursor(metadata, items),
                KeyedLastItemCursor(metadata, items)))

\* dispatch on the provider handed to RelayConnection::new
get_cursor_for_item(provider, metadata, item_idx, item) ==
    IF provider = "OffsetCursorProvider"
    THEN OffsetCursorProvider_get_cursor_for_item(metadata, item_idx, item)
    ELSE KeyedCursorProvider_get_cursor_for_item(metadata, item_idx, item)

get_page_info(provider, metadata, items) ==
    IF provider = "OffsetCursorProvider"
    THEN OffsetCursorProvider_get_page_info(metadata, items)
    ELSE KeyedCursorProvider_get_page_info(metadata, items)

\* ------------------------------------------------------------------------
\* Generated connection and edge types (codegen lib.rs)
\* ------------------------------------------------------------------------

\* RelayEdge::new(node, cursor)
RelayEdge_new(node, cursor) ==
    [node |-> node, cursor |-> Some(to_encoded_string(cursor))]

\* RelayEdge::new_raw_cursor(node, cursor)
RelayEdge_new_raw_cursor(node, cursor) == [node |-> node, cursor |-> cursor]

\* the struct expression of RelayConnection::new, given the outcome of the
\* get_cursor_for_item call of every node and of the get_page_info call:
\* the edges are built first, in node order, then the page info; a panic
\* in either unwinds out of the constructor
ConnectionOf(nodes, total_items, cursors, page_info) ==
    IF \E idx \in 1..Len(nodes) : cursors[idx].kind = "Panic" THEN Panic
    ELSE IF page_info.kind = "Panic" THEN Panic
    ELSE Ok([count |-> total_items,
             edges |-> [idx \in 1..Len(nodes) |->
                           RelayEdge_new(nodes[idx], cursors[idx].val)],
             page_info |-> page_info.val])

\* RelayConnection::new once `metadata` is built
ConnectionFor(nodes, total_items, provider, metadata) ==
    ConnectionOf(nodes, total_items,
                 [idx \in 1..Len(nodes) |->
                     get_cursor_for_item(provider, metadata, idx - 1,
                                         nodes[idx])],
                 get_page_info(provider, metadata, nodes))

\* RelayConnection::new(nodes, total_items, cursor_provider, page_request)
RelayConnection_new(nodes, total_items, provider, page_request) ==
    ConnectionFor(nodes, total_items, provider,
                  PaginationMetadata(total_items, page_request))

\* ------------------------------------------------------------------------
\* State
\* ------------------------------------------------------------------------

\* wire:    the encoded cursor a client currently holds (Option)
\* issued:  the cursor value `wire` was encoded from, None when the client
\*          made the token up itself
\* decoded: the outcome of the last from_encoded_string on `wire`, with the
\*          cursor type it was decoded as (Option)
VARIABLES wire, issued, decoded

\* call: the last library call made by a resolver, with its arguments
\* ret:  what that call produced: Ok(value), or Panic
VARIABLES call, ret

\* session: the arguments of a client walking the example "database"
\* pages:   the pages the client has requested so far, oldest first
VARIABLES session, pages

vars == <<overflow_checks, wire, issued, decoded, call, ret, session, pages>>

codecVars == <<wire, issued, decoded>>

providerVars == <<call, ret>>

walkVars == <<session, pages>>

Init ==
    /\ overflow_checks \in BOOLEAN
    /\ wire = None
    /\ issued = None
    /\ decoded = None
    /\ call = [fn |-> "none"]
    /\ ret = [kind |-> "none"]
    /\ session = None
    /\ pages = <<>>

\* ------------------------------------------------------------------------
\* Inputs of the codec
\* ------------------------------------------------------------------------

RECURSIVE SeqsUpTo(_, _)
\* all sequences over S of length 0..n
SeqsUpTo(S, n) ==
    IF n = 0 THEN {<<>>}
    ELSE LET shorter == SeqsUpTo(S, n - 1) IN
         shorter \cup {Append(q, x) : q \in shorter, x \in S}

\* StringCursor values: every string over 'a' and '|' up to the bound, so
\* that values with one lone pipe, with the delimiter, and with the
\* delimiter at either end all occur
StringValues == SeqsUpTo({97, 124}, MaxValueLen)

OffsetValues == (0..MaxOffset) \cup {-1, I32Max, I32Min}

FirstValues == {None} \cup {Some(n) : n \in {-3, 0, 10, I32Max, I32Min}}

\* segments a client may put into a raw token: the two kind tags, the
\* empty segment, a number, a negative number and a word
SegmentValues == {TagOffset, TagString, <<>>, <<55>>, <<45, 50>>, <<120>>}

RECURSIVE Join(_)
\* the segments joined by the delimiter
Join(segs) ==
    IF Len(segs) = 1 THEN segs[1]
    ELSE segs[1] \o CURSOR_SEGMENT_DELIMITER \o Join(Tail(segs))

RawTokens == {Join(segs) : segs \in SeqsUpTo(SegmentValues, MaxSegments) \ {<<>>}}

\* tokens that are not the encoding of any raw string: a symbol outside the
\* alphabet, a length that is not a multiple of four, and the encoding of
\* the byte 0xFF, which is not UTF-8
BrokenTokens == {<<33, 33, 33, 33>>, <<89, 81>>, B64Encode(<<255>>)}

ForeignTokens == {B64Encode(r) : r \in RawTokens} \cup BrokenTokens

CursorTypes == {"OffsetCursor", "StringCursor"}

\* ------------------------------------------------------------------------
\* Codec actions
\* ------------------------------------------------------------------------

\* Cursors are value objects of one request: a request starts with no
\* cursor, obtains one encoded cursor, decodes it and ends.

\* a resolver builds an OffsetCursor and sends out its encoded form
EncodeOffsetCursor(offset, first) ==
    /\ ~wire.some
    /\ wire' = Some(to_encoded_string(OffsetCursor(offset, first)))
    /\ issued' = Some(OffsetCursor(offset, first))
    /\ decoded' = None
    /\ UNCHANGED <<overflow_checks, providerVars, walkVars>>

\* a resolver builds a StringCursor and sends out its encoded form
EncodeStringCursor(value) ==
    /\ ~wire.some
    /\ wire' = Some(to_encoded_string(StringCursor(value)))
    /\ issued' = Some(StringCursor(value))
    /\ decoded' = None
    /\ UNCHANGED <<overflow_checks, providerVars, walkVars>>

\* a client sends a token of its own making
ReceiveToken(token) ==
    /\ ~wire.some
    /\ wire' = Some(token)
    /\ issued' = None
    /\ decoded' = None
    /\ UNCHANGED <<overflow_checks, providerVars, walkVars>>

\* T::from_encoded_string(wire)
FromEncodedString(T) ==
    /\ wire.some
    /\ ~decoded.some
    /\ decoded' = Some([T |-> T, result |-> from_encoded_string(T, wire.v)])
    /\ UNCHANGED <<overflow_checks, wire, issued, providerVars, walkVars>>

\* the request is over: its cursor values are dropped
DropCursor ==
    /\ decoded.some
    /\ wire' = None
    /\ issued' = None
    /\ decoded' = None
    /\ UNCHANGED <<overflow_checks, providerVars, walkVars>>

NextCodec ==
    \/ \E offset \in OffsetValues, first \in FirstValues :
          EncodeOffsetCursor(offset, first)
    \/ \E value \in StringValues : EncodeStringCursor(value)
    \/ \E token \in ForeignTokens : ReceiveToken(token)
    \/ \E T \in CursorTypes : FromEncodedString(T)
    \/ DropCursor

SpecCodec == Init /\ [][NextCodec]_vars

\* ------------------------------------------------------------------------
\* Inputs of the providers and of the connection constructor
\* ------------------------------------------------------------------------

Providers == {"OffsetCursorProvider", "KeyedCursorProvider"}

\* an item with the key "id-<k>", as in the provider tests
Item(k) == [id |-> <<105, 100, 45>> \o FmtNat(k)]

ItemValues == {Item(1), Item(2)}

ItemLists == SeqsUpTo(ItemValues, MaxItems)

\* the three items of the keyed provider's test_item_cursors
KeyedItems == {Item(1), Item(2), Item(3)}

\* `after` arguments: absent; well-formed offset cursors (at the start, in
\* the middle, at the end of the i32 range, with a `first`); a string
\* cursor; and malformed tokens: not base64, not UTF-8, one segment, four
\* segments, an offset that is not a number
AfterValues ==
    {None}
    \cup {Some(to_encoded_string(OffsetCursor(o, None))) : o \in {0, 1, I32Max}}
    \cup {Some(to_encoded_string(OffsetCursor(1, Some(10)))),
          Some(to_encoded_string(StringCursor(Item(1).id))),
          Some(<<33, 33, 33, 33>>),
          Some(B64Encode(<<255>>)),
          Some(B64Encode(TagOffset)),
          Some(B64Encode(Join(<<TagOffset, <<49>>, <<50>>, <<51>>>>))),
          Some(B64Encode(Join(<<TagOffset, <<120>>>>)))}

\* cursors a resolver hands to PageRequest::new: offset cursors over the
\* i32 range with and without a first, and a string cursor
AfterCursors ==
    {OffsetCursor(o, f) : o \in {-1, 0, 1, I32Max, I32Min},
                          f \in {None, Some(10)}}
    \cup {StringCursor(Item(1).id)}

\* cursors handed to RelayEdge::new: those above and the cursor
\* {offset 0, first 10} of edge_implementation_new
EdgeCursors == AfterCursors \cup {OffsetCursor(0, Some(10))}

\* optional strings handed to RelayEdge::new_raw_cursor: none, the empty
\* string, a plain word and an encoded cursor
RawCursorArgs ==
    {None, Some(<<>>), Some(Item(1).id),
     Some(to_encoded_string(OffsetCursor(0, Some(10))))}

FirstArgs == {None} \cup {Some(n) : n \in (0..MaxFirstArg) \cup {I32Max}}

PageRequests ==
    {None} \cup {Some(PageRequest(f, a)) : f \in FirstArgs, a \in AfterValues}

Metadatas ==
    {PaginationMetadata(t, pr) : t \in 0..MaxTotalCount, pr \in PageRequests}

\* ------------------------------------------------------------------------
\* Provider actions: one library call per request, then the request ends
\* ------------------------------------------------------------------------

CallGetCursorForItem(provider, metadata, item_idx, item) ==
    /\ call.fn = "none"
    /\ call' = [fn |-> "get_cursor_for_item", provider |-> provider,
                metadata |-> metadata, item_idx |-> item_idx, item |-> item]
    /\ ret' = get_cursor_for_item(provider, metadata, item_idx, item)
    /\ UNCHANGED <<overflow_checks, codecVars, walkVars>>

CallGetPageInfo(provider, metadata, items) ==
    /\ call.fn = "none"
    /\ call' = [fn |-> "get_page_info", provider |-> provider,
                metadata |-> metadata, items |-> items]
    /\ ret' = get_page_info(provider, metadata, items)
    /\ UNCHANGED <<overflow_checks, codecVars, walkVars>>

CallRelayConnectionNew(nodes, total_items, provider, page_request) ==
    /\ call.fn = "none"
    /\ call' = [fn |-> "RelayConnection::new", nodes |-> nodes,
                total_items |-> total_items, provider |-> provider,
                page_request |-> page_request]
    /\ ret' = RelayConnection_new(nodes, total_items, provider, page_request)
    /\ UNCHANGED <<overflow_checks, codecVars, walkVars>>

\* pr.parsed_cursor::<T>() on a page request; `pr` is borrowed immutably
CallParsedCursor(T, pr) ==
    /\ call.fn = "none"
    /\ call' = [fn |-> "parsed_cursor", T |-> T, pr |-> pr]
    /\ ret' = parsed_cursor(T, pr)
    /\ UNCHANGED <<overflow_checks, codecVars, walkVars>>

\* PageRequest::new(first, after) in a resolver
CallPageRequestNew(first, after) ==
    /\ call.fn = "none"
    /\ call' = [fn |-> "PageRequest::new", first |-> first, after |-> after]
    /\ ret' = Ok(PageRequest_new(first, after))
    /\ UNCHANGED <<overflow_checks, codecVars, walkVars>>

\* parsed_cursor::<T>() on the page request that PageRequest::new built
CallParsedCursorOfNew(T) ==
    /\ call.fn = "PageRequest::new"
    /\ call' = [fn |-> "new.parsed_cursor", T |-> T, pr |-> ret.val,
                first |-> call.first, after |-> call.after]
    /\ ret' = parsed_cursor(T, ret.val)
    /\ UNCHANGED <<overflow_checks, codecVars, walkVars>>

\* RelayEdge::new(node, cursor)
CallRelayEdgeNew(node, cursor) ==
    /\ call.fn = "none"
    /\ call' = [fn |-> "RelayEdge::new", node |-> node, cursor |-> cursor]
    /\ ret' = Ok(RelayEdge_new(node, cursor))
    /\ UNCHANGED <<overflow_checks, codecVars, walkVars>>

\* RelayEdge::new_raw_cursor(node, cursor)
CallRelayEdgeNewRawCursor(node, cursor) ==
    /\ call.fn = "none"
    /\ call' = [fn |-> "RelayEdge::new_raw_cursor", node |-> node,
                cursor |-> cursor]
    /\ ret' = Ok(RelayEdge_new_raw_cursor(node, cursor))
    /\ UNCHANGED <<overflow_checks, codecVars, walkVars>>

\* the request is over: arguments and result are dropped
Return ==
    /\ call.fn # "none"
    /\ call' = [fn |-> "none"]
    /\ ret' = [kind |-> "none"]
    /\ UNCHANGED <<overflow_checks, codecVars, walkVars>>

NextProvider ==
    \/ \E provider \in Providers, metadata \in Metadatas,
          item_idx \in 0..(MaxItems - 1), item \in KeyedItems :
          CallGetCursorForItem(provider, metadata, item_idx, item)
    \/ \E provider \in Providers, metadata \in Metadatas, items \in ItemLists :
          CallGetPageInfo(provider, metadata, items)
    \/ \E nodes \in ItemLists, total_items \in 0..MaxTotalCount,
          provider \in Providers, page_request \in PageRequests :
          CallRelayConnectionNew(nodes, total_items, provider, page_request)
    \/ \E T \in CursorTypes, pr \in PageRequests \ {None} :
          CallParsedCursor(T, pr.v)
    \/ \E first \in FirstArgs, after \in {None} \cup {Some(c) : c \in AfterCursors} :
          CallPageRequestNew(first, after)
    \/ \E T \in CursorTypes : CallParsedCursorOfNew(T)
    \/ \E node \in ItemValues, cursor \in EdgeCursors :
          CallRelayEdgeNew(node, cursor)
    \/ \E node \in ItemValues, cursor \in RawCursorArgs :
          CallRelayEdgeNewRawCursor(node, cursor)
    \/ Return

SpecProvider == Init /\ [][NextProvider]_vars

\* ------------------------------------------------------------------------
\* The example resolver `locations` (schema/mod.rs) and a client that walks
\* the result set page by page
\* ------------------------------------------------------------------------

\* ctx.locations mapped through Location::from: n rows with distinct ids
Locations(n) == [k \in 1..n |-> Item(k)]

\* Vec::split_off(after.offset as usize + 1): the cast of a negative offset
\* gives a huge index (-1 gives usize::MAX, whose +1 overflows); an index
\* beyond the length panics
SplitOffAfter(nodes, offset) ==
    IF offset = -1
    THEN IF overflow_checks THEN Panic ELSE Ok(nodes)
    ELSE IF offset < 0 \/ offset >= Len(nodes) THEN Panic
    ELSE Ok(SubSeq(nodes, offset + 2, Len(nodes)))

\* Vec::truncate(first as usize): a negative `first` casts to a huge length
\* and keeps everything
Truncate(nodes, first) ==
    IF first < 0 \/ first >= Len(nodes) THEN nodes
    ELSE SubSeq(nodes, 1, first)

\* QueryRoot::locations from the truncation on, given the outcome of
\* split_off
LocationsPage(first, after, n, tail) ==
    IF tail.kind = "Panic" THEN Panic
    ELSE RelayConnection_new(
             IF first.some THEN Truncate(tail.val, first.v) ELSE tail.val,
             n, "OffsetCursorProvider", Some(PageRequest_new(first, after)))

\* QueryRoot::locations(first, after, ctx), `after` already decoded into an
\* Option<OffsetCursor> by the scalar's from_input
locations(first, after, n) ==
    LocationsPage(first, after, n,
                  IF after.some
                  THEN SplitOffAfter(Locations(n), after.v.offset)
                  ELSE Ok(Locations(n)))

\* the resolver entered with the decoded `after`, or the field error of a
\* token that does not decode
LocationsWith(first, c, n) ==
    IF c.kind = "Ok" THEN locations(first, Some(c.val), n) ELSE c

\* Cursor::from_input on the `after` argument of a query: a token that does
\* not decode is a field error and the resolver is not entered
Query_locations(first, after_token, n) ==
    IF ~after_token.some THEN locations(first, None, n)
    ELSE LocationsWith(first,
                       from_encoded_string("OffsetCursor", after_token.v), n)

\* the `after` of the client's next query: none for the first page, then the
\* endCursor of the page it received last
NextAfter == IF pages = <<>> THEN None
             ELSE pages[Len(pages)].result.val.page_info.end_cursor

\* a client starts a walk over a result set of n rows with page size first
OpenSession(n, first) ==
    /\ ~session.some
    /\ session' = Some([total |-> n, first |-> first])
    /\ pages' = <<>>
    /\ UNCHANGED <<overflow_checks, codecVars, providerVars>>

\* the client asks for the next page; it can do so as long as the page it
\* holds gave it an endCursor to continue from
RequestPage ==
    /\ session.some
    /\ pages # <<>> =>
          /\ pages[Len(pages)].result.kind = "Ok"
          /\ pages[Len(pages)].result.val.page_info.end_cursor.some
    /\ pages' = Append(pages,
                       [after  |-> NextAfter,
                        result |-> Query_locations(session.v.first, NextAfter,
                                                   session.v.total)])
    /\ UNCHANGED <<overflow_checks, session, codecVars, providerVars>>

\* the client ends its walk
CloseSession ==
    /\ session.some
    /\ pages # <<>>
    /\ session' = None
    /\ pages' = <<>>
    /\ UNCHANGED <<overflow_checks, codecVars, providerVars>>

WalkFirsts == {None} \cup {Some(f) : f \in 0..MaxFirst}

NextWalk ==
    \/ \E n \in 0..MaxTotal, first \in WalkFirsts : OpenSession(n, first)
    \/ RequestPage
    \/ CloseSession

SpecWalk == Init /\ [][NextWalk]_vars

\* ------------------------------------------------------------------------
\* The example resolver `locations_string_cursor` (schema/mod.rs) and a
\* client that walks the result set with the keyed provider
\* ------------------------------------------------------------------------

\* the metadata built inside the `position` closure: its page request wraps
\* the encoded `after` in a StringCursor once more
SubPageMetadata(first, after_cursor, n) ==
    PaginationMetadata(
        n, Some(PageRequest_new(first, Some(StringCursor(after_cursor)))))

\* the closure of `position`: the item's encoded cursor equals pr.after
IsAfterItem(item, first, after_cursor, n) ==
    to_encoded_string(
        KeyedCursorProvider_get_cursor_for_item(
            SubPageMetadata(first, after_cursor, n), 0, item).val)
    = after_cursor

\* nodes.iter().position(..): the zero-based index of the first item whose
\* cursor is pr.after, if there is one
PositionOfAfter(nodes, first, after_cursor, n) ==
    IF \E i \in 1..Len(nodes) : IsAfterItem(nodes[i], first, after_cursor, n)
    THEN Some((CHOOSE i \in 1..Len(nodes) :
                  /\ IsAfterItem(nodes[i], first, after_cursor, n)
                  /\ \A j \in 1..(i - 1) :
                        ~IsAfterItem(nodes[j], first, after_cursor, n)) - 1)
    ELSE None

\* SplitOffFound as it would be with split_off(idx): the item of the
\* `after` cursor is kept
SplitOffFound_at_idx(nodes, idx) ==
    IF idx.some THEN SubSeq(nodes, idx.v + 1, Len(nodes)) ELSE nodes

\* `if let Some(idx) = idx { nodes = nodes.split_off(idx + 1); }`: when no
\* item has the cursor, the list is left whole
SplitOffFound(nodes, idx) ==
    IF idx.some THEN SubSeq(nodes, idx.v + 2, Len(nodes)) ELSE nodes

\* the nodes after the `if let Some(after_cursor) = &pr.after` block
NodesAfter(nodes, pr, first, n) ==
    IF pr.after.some
    THEN SplitOffFound(nodes, PositionOfAfter(nodes, first, pr.after.v, n))
    ELSE nodes

\* QueryRoot::locations_string_cursor once `pr` is built
KeyedLocationsPage(first, n, pr) ==
    RelayConnection_new(
        IF first.some
        THEN Truncate(NodesAfter(Locations(n), pr, first, n), first.v)
        ELSE NodesAfter(Locations(n), pr, first, n),
        n, "KeyedCursorProvider", Some(pr))

\* QueryRoot::locations_string_cursor(first, after, ctx), `after` already
\* decoded into an Option<StringCursor> by the scalar's from_input
locations_string_cursor(first, after, n) ==
    KeyedLocationsPage(first, n, PageRequest_new(first, after))

\* the resolver entered with the decoded `after`, or the field error of a
\* token that does not decode
KeyedLocationsWith(first, c, n) ==
    IF c.kind = "Ok" THEN locations_string_cursor(first, Some(c.val), n) ELSE c

\* Cursor::from_input on the `after` argument of the query
Query_locations_string_cursor(first, after_token, n) ==
    IF ~after_token.some THEN locations_string_cursor(first, None, n)
    ELSE KeyedLocationsWith(
             first, from_encoded_string("StringCursor", after_token.v), n)

\* no walk over MaxTotal rows needs more pages than one per row and the
\* empty page that ends it
MaxPages == MaxTotal + 2

\* a client starts a walk of `locations_string_cursor` over n rows
KeyedOpenSession(n, first) ==
    /\ ~session.some
    /\ session' = Some([total |-> n, first |-> first])
    /\ pages' = <<>>
    /\ UNCHANGED <<overflow_checks, codecVars, providerVars>>

\* the walk is over: the page the client holds is an error or says that no
\* page follows
KeyedWalkOver ==
    /\ pages # <<>>
    /\ \/ pages[Len(pages)].result.kind # "Ok"
       \/ ~pages[Len(pages)].result.val.page_info.has_next_page

\* the client has a page to ask for: its walk is open and not over
KeyedCanRequest ==
    /\ session.some
    /\ ~KeyedWalkOver
    /\ Len(pages) < MaxPages

\* the client asks for the next page as long as hasNextPage is true, with
\* the endCursor it received as `after`
KeyedRequestPage ==
    /\ KeyedCanRequest
    /\ pages' = Append(pages,
                       [after  |-> NextAfter,
                        result |-> Query_locations_string_cursor(
                                       session.v.first, NextAfter,
                                       session.v.total)])
    /\ UNCHANGED <<overflow_checks, session, codecVars, providerVars>>

\* the client ends its walk once it is over
KeyedCloseSession ==
    /\ session.some
    /\ KeyedWalkOver
    /\ session' = None
    /\ pages' = <<>>
    /\ UNCHANGED <<overflow_checks, codecVars, providerVars>>

NextKeyedWalk ==
    \/ \E n \in 0..MaxTotal, first \in WalkFirsts : KeyedOpenSession(n, first)
    \/ KeyedRequestPage
    \/ KeyedCloseSession

\* the client does not give up: a page it can ask for, it asks for.  This
\* is weak fairness of KeyedRequestPage with its enabling condition written
\* out: the request appends a page, so it always changes `pages`, and
\* ENABLED <<KeyedRequestPage>>_vars is KeyedCanRequest.
KeyedClientKeepsAsking ==
    \/ []<>~KeyedCanRequest
    \/ []<><<KeyedRequestPage>>_vars

SpecKeyedWalk ==
    Init /\ [][NextKeyedWalk]_vars /\ KeyedClientKeepsAsking

\* ------------------------------------------------------------------------
\* Properties of the codec (checked under SpecCodec)
\* ------------------------------------------------------------------------

DecodedAs(T) == decoded.some /\ decoded.v.T = T

IssuedAs(T) == issued.some /\ issued.v.type = T

\* C1: OffsetCursor round trip. Decoding the encoded form of an OffsetCursor
\* with offset >= 0 and any `first` (absent or any i32) as an OffsetCursor
\* succeeds and gives back the same offset and the same first.
C1_OffsetRoundTrip ==
    (DecodedAs("OffsetCursor") /\ IssuedAs("OffsetCursor")
       /\ issued.v.offset >= 0)
    => /\ decoded.v.result.kind = "Ok"
       /\ decoded.v.result.val.offset = issued.v.offset
       /\ decoded.v.result.val.first = issued.v.first

\* the largest offset with a negative `first` has made the round trip
C1_Witness ==
    /\ DecodedAs("OffsetCursor") /\ IssuedAs("OffsetCursor")
    /\ issued.v.offset = I32Max
    /\ issued.v.first = Some(-3)
    /\ decoded.v.result = Ok(issued.v)

\* C2: StringCursor round trip. Decoding the encoded form of a StringCursor
\* with any value (the empty string and values that contain "||" included)
\* as a StringCursor succeeds and gives back the same value.
C2_StringRoundTrip ==
    (DecodedAs("StringCursor") /\ IssuedAs("StringCursor"))
    => /\ decoded.v.result.kind = "Ok"
       /\ decoded.v.result.val.value = issued.v.value

\* C3: the codec never panics. from_encoded_string of either cursor type
\* returns Ok(cursor) or a typed CursorError for every input string, also
\* for a raw string without any delimiter.
C3_NeverPanics ==
    decoded.some
    => \/ decoded.v.result.kind = "Ok"
       \/ /\ decoded.v.result.kind = "Err"
          /\ decoded.v.result.err \in CursorError

\* ------------------------------------------------------------------------
\* Properties of the providers and of connection assembly (SpecProvider)
\* ------------------------------------------------------------------------

Called(fn, provider) == call.fn = fn /\ call.provider = provider

\* C4: connection assembly. For every node list, total_items, provider and
\* page request, RelayConnection::new returns a connection whose count is
\* total_items, whose edges are as many as the nodes, and whose i-th edge
\* holds node i with the encoded cursor the provider gives for (i, node i).
C4_ConnectionAssembly ==
    call.fn = "RelayConnection::new"
    => /\ ret.kind = "Ok"
       /\ ret.val.count = call.total_items
       /\ Len(ret.val.edges) = Len(call.nodes)
       /\ \A i \in 1..Len(call.nodes) :
             LET c == get_cursor_for_item(
                          call.provider,
                          PaginationMetadata(call.total_items, call.page_request),
                          i - 1, call.nodes[i])
             IN /\ ret.val.edges[i].node = call.nodes[i]
                /\ c.kind = "Ok"
                /\ ret.val.edges[i].cursor = Some(B64Encode(to_raw_string(c.val)))

\* C5: OffsetCursorProvider.get_page_info on an empty items slice returns
\* normally for every metadata, with start_cursor and end_cursor both None.
C5_EmptyPageReturns ==
    (Called("get_page_info", "OffsetCursorProvider") /\ call.items = <<>>)
    => /\ ret.kind = "Ok"
       /\ ret.val.start_cursor = None
       /\ ret.val.end_cursor = None

\* a token is malformed when it is not base64, not UTF-8, has a segment
\* count other than 2 or 3, or an offset segment that is not a number
Malformed(token) ==
    LET d == B64Decode(token) IN
    \/ ~d.some
    \/ ~ValidUtf8(d.v)
    \/ LET parts == Split(d.v, CURSOR_SEGMENT_DELIMITER) IN
       \/ Len(parts) \notin {2, 3}
       \/ ~ParseI32(parts[2]).some

\* the same metadata with the `after` of its page request taken away
WithoutAfter(metadata) ==
    PaginationMetadata(
        metadata.total_count,
        Some(PageRequest(metadata.page_request.v.first, None)))

\* C9: a malformed `after` on the offset provider degrades to the first
\* page. get_cursor_for_item and get_page_info do not fail and behave as if
\* no `after` had been given: item i gets offset i, hasPrevPage is false.
C9_MalformedAfterIsFirstPage ==
    (/\ call.fn \in {"get_cursor_for_item", "get_page_info"}
     /\ call.provider = "OffsetCursorProvider"
     /\ call.metadata.page_request.some
     /\ call.metadata.page_request.v.after.some
     /\ Malformed(call.metadata.page_request.v.after.v))
    => /\ ret.kind = "Ok"
       /\ call.fn = "get_cursor_for_item" =>
             /\ ret.val.offset = call.item_idx
             /\ ret = OffsetCursorProvider_get_cursor_for_item(
                          WithoutAfter(call.metadata), call.item_idx, call.item)
       /\ call.fn = "get_page_info" =>
             /\ ~ret.val.has_prev_page
             /\ ret = OffsetCursorProvider_get_page_info(
                          WithoutAfter(call.metadata), call.items)

\* C10: KeyedCursorProvider.get_page_info flags. has_prev_page is true iff
\* a page request is present and its `after` is present, whatever it holds;
\* has_next_page is true iff the item page is non-empty; neither depends on
\* total_count or `first`.
C10_KeyedFlags ==
    Called("get_page_info", "KeyedCursorProvider")
    => /\ ret.kind = "Ok"
       /\ ret.val.has_prev_page
            = (/\ call.metadata.page_request.some
               /\ call.metadata.page_request.v.after.some)
       /\ ret.val.has_next_page = (call.items # <<>>)

\* a present `after` that is not even base64, with an empty page and a
\* total_count and `first` that would suggest more: true / false
C10_Witness ==
    /\ Called("get_page_info", "KeyedCursorProvider")
    /\ call.items = <<>>
    /\ call.metadata.total_count = MaxTotalCount
    /\ call.metadata.page_request.some
    /\ call.metadata.page_request.v.first = Some(1)
    /\ call.metadata.page_request.v.after = Some(<<33, 33, 33, 33>>)
    /\ ret.kind = "Ok"
    /\ ret.val.has_prev_page
    /\ ~ret.val.has_next_page

\* ------------------------------------------------------------------------
\* Properties of a pagination walk with the offset provider (SpecWalk)
\* ------------------------------------------------------------------------

\* the pages of the walk that came back as a connection
ReturnedPages == {i \in 1..Len(pages) : pages[i].result.kind = "Ok"}

PageEdges(i) == pages[i].result.val.edges

PageInfoOf(i) == pages[i].result.val.page_info

\* zero-based position of a node in the result set being walked
GlobalPosition(node) ==
    (CHOOSE k \in 1..session.v.total : Locations(session.v.total)[k] = node) - 1

\* the offset carried by an encoded cursor that was handed out
OffsetOf(encoded) == from_encoded_string("OffsetCursor", encoded).val.offset

PageSizeAtLeastOne == session.some /\ session.v.first.some /\ session.v.first.v >= 1

\* C6: has-next flag in a walk with page size >= 1. A page reports
\* hasNextPage = false iff it contains the last item of the result set;
\* every earlier page reports hasNextPage = true.
C6_HasNextIffNotLastPage ==
    PageSizeAtLeastOne
    => \A i \in ReturnedPages :
          PageEdges(i) # <<>>
          => (PageInfoOf(i).has_next_page
                = (GlobalPosition(PageEdges(i)[Len(PageEdges(i))].node)
                     # session.v.total - 1))

\* C7: has-previous flag in a walk with page size >= 1. The first page
\* reports hasPrevPage = false and every later page hasPrevPage = true.
C7_HasPrevOnLaterPages ==
    PageSizeAtLeastOne
    => \A i \in ReturnedPages : PageInfoOf(i).has_prev_page = (i > 1)

\* C8: offsets in a walk. The first page's items get offsets 0..n-1, the
\* first item of every later page gets the previous page's end offset + 1,
\* and so the item at global position k always gets the cursor of offset k.
C8_ContiguousOffsets ==
    session.some
    => \A i \in ReturnedPages :
          \A j \in 1..Len(PageEdges(i)) :
             LET c == from_encoded_string("OffsetCursor",
                                          PageEdges(i)[j].cursor.v)
             IN /\ c.kind = "Ok"
                /\ c.val.offset = GlobalPosition(PageEdges(i)[j].node)
                /\ i = 1 => c.val.offset = j - 1
                /\ i > 1 => c.val.offset
                              = OffsetOf(PageInfoOf(i - 1).end_cursor.v) + j

\* a walk of three pages of sizes 2, 2, 1 has handed out the offsets
\* 0..1, 2..3 and 4
C8_Witness ==
    /\ session.some
    /\ session.v.total = 5
    /\ session.v.first = Some(2)
    /\ Len(pages) = 3
    /\ ReturnedPages = {1, 2, 3}
    /\ Len(PageEdges(3)) = 1
    /\ OffsetOf(PageEdges(2)[1].cursor.v) = 2
    /\ OffsetOf(PageEdges(3)[1].cursor.v) = 4

\* ------------------------------------------------------------------------
\* Properties of the keyed provider (checked under SpecProvider)
\* ------------------------------------------------------------------------

\* the wire form of the StringCursor of a key: base64 of "string||<key>"
KeyToken(key) == B64Encode(TagString \o CURSOR_SEGMENT_DELIMITER \o key)

KeyedLiteral(k) ==
    <<99, 51, 82, 121, 97, 87, 53, 110, 79, 109, 108, 107, 76, 84>>
    \o <<IF k = 1 THEN 69 ELSE IF k = 2 THEN 73 ELSE 77, 61>>

\* C12: keyed cursor wire literal. get_cursor_for_item of the keyed provider
\* on the items with keys "id-1", "id-2", "id-3" gives cursors whose encoded
\* strings are exactly "c3RyaW5nOmlkLTE=", "c3RyaW5nOmlkLTI=" and
\* "c3RyaW5nOmlkLTM=".
C12_KeyedWireLiteral ==
    Called("get_cursor_for_item", "KeyedCursorProvider")
    => /\ ret.kind = "Ok"
       /\ \A k \in 1..3 :
             call.item = Item(k) => to_encoded_string(ret.val) = KeyedLiteral(k)

\* ------------------------------------------------------------------------
\* Further properties of the codec (checked under SpecCodec)
\* ------------------------------------------------------------------------

\* the kind tag that leads the raw string of a cursor type
TagOf(T) == IF T = "OffsetCursor" THEN TagOffset ELSE TagString

\* the token on the wire decodes to a raw string whose first segment is the
\* kind tag of a cursor type other than T
LeadsWithOtherTag(T) ==
    /\ B64Decode(wire.v).some
    /\ ValidUtf8(B64Decode(wire.v).v)
    /\ \E U \in CursorTypes \ {T} :
          Split(B64Decode(wire.v).v, CURSOR_SEGMENT_DELIMITER)[1] = TagOf(U)

\* C13: kind-tag check. Decoding an encoded cursor as a cursor kind other
\* than the one its leading kind tag names returns the InvalidCursor error
\* rather than a cursor.
C13_KindTagMismatchIsInvalid ==
    (decoded.some /\ LeadsWithOtherTag(decoded.v.T))
    => decoded.v.result = Err(InvalidCursor)

\* ------------------------------------------------------------------------
\* Properties of PageRequest::parsed_cursor (checked under SpecProvider)
\* ------------------------------------------------------------------------

\* cursors whose encoded form is among the `after` arguments
WellFormedCursors ==
    {OffsetCursor(o, None) : o \in {0, 1, I32Max}}
    \cup {OffsetCursor(1, Some(10)), StringCursor(Item(1).id)}

\* `after` arguments that no decoder can read: not base64, not UTF-8, and a
\* raw string of a single segment
UndecodableTokens ==
    {<<33, 33, 33, 33>>, B64Encode(<<255>>), B64Encode(TagOffset)}

\* C14: PageRequest.parsed_cursor returns Ok(None) when `after` is absent,
\* Ok(Some(cursor)) when `after` is a valid encoding of the requested cursor
\* type, and Err(CursorError) when `after` is present but cannot be decoded;
\* it never panics.
C14_ParsedCursor ==
    call.fn = "parsed_cursor"
    => /\ ret.kind \in {"Ok", "Err"}
       /\ ~call.pr.after.some => ret = Ok(None)
       /\ \A c \in WellFormedCursors :
             (c.type = call.T /\ call.pr.after = Some(to_encoded_string(c)))
             => ret = Ok(Some(c))
       /\ (call.pr.after.some /\ call.pr.after.v \in UndecodableTokens)
          => (ret.kind = "Err" /\ ret.err \in CursorError)

\* ------------------------------------------------------------------------
\* Rules of the offset provider (checked under SpecProvider)
\* ------------------------------------------------------------------------

\* whether the metadata carries an `after` that decodes as an OffsetCursor
AfterDecodes(metadata) ==
    /\ metadata.page_request.some
    /\ metadata.page_request.v.after.some
    /\ from_encoded_string("OffsetCursor",
                           metadata.page_request.v.after.v).kind = "Ok"

\* the cursor decoded from `after`, or {offset 0, first None} when the page
\* request or `after` is absent or undecodable
DecodedAfter(metadata) ==
    IF AfterDecodes(metadata)
    THEN from_encoded_string("OffsetCursor",
                             metadata.page_request.v.after.v).val
    ELSE OffsetCursor(0, None)

\* x = a + b over the integers, for b >= 0 and x, a within i32: a sum
\* beyond the i32 range equals no i32
IsSum(x, a, b) == a <= I32Max - b /\ x = a + b

\* C16: OffsetCursorProvider.get_cursor_for_item formula. The returned
\* cursor has offset = base.offset + adjust + i and first = base.first,
\* where base is the cursor decoded from `after` (or the default) and adjust
\* is 1 exactly when an `after` was decoded; page_request.first and the item
\* do not matter.
C16_ItemCursorFormula ==
    (Called("get_cursor_for_item", "OffsetCursorProvider") /\ ret.kind = "Ok")
    => /\ IsSum(ret.val.offset,
                DecodedAfter(call.metadata).offset,
                (IF AfterDecodes(call.metadata) THEN 1 ELSE 0) + call.item_idx)
       /\ ret.val.first = DecodedAfter(call.metadata).first

\* a + b < c over the integers, for a, b within i32 and a small c >= 0
SumIsBelow(a, b, c) == a < c - b

\* C17: OffsetCursorProvider.get_page_info has_next_page rule. It is false
\* without a page request and false without a `first`, whatever total_count
\* and the items are; otherwise it is true iff decodedAfter.offset + first
\* < total_count, with the decoded offset as it is (0 if `after` is absent
\* or undecodable), without the +1 adjustment.
C17_HasNextRule ==
    (Called("get_page_info", "OffsetCursorProvider") /\ ret.kind = "Ok")
    => ret.val.has_next_page
         = (/\ call.metadata.page_request.some
            /\ call.metadata.page_request.v.first.some
            /\ SumIsBelow(DecodedAfter(call.metadata).offset,
                          call.metadata.page_request.v.first.v,
                          call.metadata.total_count))

\* C18: OffsetCursorProvider.get_page_info has_prev_page rule. Whenever the
\* call returns, has_prev_page equals (decodedAfter.offset > 0), with the
\* default {offset 0} when the page request or `after` is absent or
\* undecodable; hence it is false without a page request.
C18_HasPrevRule ==
    (Called("get_page_info", "OffsetCursorProvider") /\ ret.kind = "Ok")
    => /\ ret.val.has_prev_page = (DecodedAfter(call.metadata).offset > 0)
       /\ ~call.metadata.page_request.some => ~ret.val.has_prev_page

\* a page requested after the cursor of offset 1 reports a previous page
C18_Witness ==
    /\ Called("get_page_info", "OffsetCursorProvider")
    /\ call.metadata.page_request.some
    /\ call.metadata.page_request.v.after
         = Some(to_encoded_string(OffsetCursor(1, Some(10))))
    /\ call.items # <<>>
    /\ ret.kind = "Ok"
    /\ ret.val.has_prev_page

\* the wire form of the OffsetCursor {offset n, first None}, n >= 0:
\* base64 of "offset||<n>"
OffsetToken(n) == B64Encode(TagOffset \o CURSOR_SEGMENT_DELIMITER \o FmtNat(n))

\* C19: OffsetCursorProvider.get_page_info boundary cursors. For every
\* non-empty item page that comes back, start_cursor is the encoded form of
\* get_cursor_for_item(metadata, 0, first item) and end_cursor that of
\* get_cursor_for_item(metadata, len-1, last item); without a page request
\* these are the cursors {offset 0, first None} and {offset len-1, first
\* None}.
C19_OffsetBoundaryCursors ==
    (/\ Called("get_page_info", "OffsetCursorProvider")
     /\ call.items # <<>>
     /\ ret.kind = "Ok")
    => /\ ret.val.start_cursor
            = Some(to_encoded_string(
                  OffsetCursorProvider_get_cursor_for_item(
                      call.metadata, 0, call.items[1]).val))
       /\ ret.val.end_cursor
            = Some(to_encoded_string(
                  OffsetCursorProvider_get_cursor_for_item(
                      call.metadata, Len(call.items) - 1,
                      call.items[Len(call.items)]).val))
       /\ ~call.metadata.page_request.some =>
             /\ ret.val.start_cursor = Some(OffsetToken(0))
             /\ ret.val.end_cursor = Some(OffsetToken(Len(call.items) - 1))

\* a page of two items without a page request came back with the cursors
\* of offset 0 and offset 1
C19_Witness ==
    /\ Called("get_page_info", "OffsetCursorProvider")
    /\ Len(call.items) = 2
    /\ ~call.metadata.page_request.some
    /\ ret.kind = "Ok"
    /\ ret.val.start_cursor = Some(OffsetToken(0))
    /\ ret.val.end_cursor = Some(OffsetToken(1))

\* C20: KeyedCursorProvider.get_cursor_for_item ignores metadata and index.
\* For every item, metadata and index the returned cursor is the
\* StringCursor whose value is the item's cursor_key().
C20_KeyedCursorIsKey ==
    Called("get_cursor_for_item", "KeyedCursorProvider")
    => /\ ret.kind = "Ok"
       /\ ret.val.type = "StringCursor"
       /\ ret.val.value = call.item.id

\* the item "id-2" at index 1, with a total_count and a page request that
\* carries a `first` and an `after`, got the cursor of value "id-2"
C20_Witness ==
    /\ Called("get_cursor_for_item", "KeyedCursorProvider")
    /\ call.item = Item(2)
    /\ call.item_idx = 1
    /\ call.metadata.total_count = 2
    /\ call.metadata.page_request.some
    /\ call.metadata.page_request.v.first.some
    /\ call.metadata.page_request.v.after.some
    /\ ret = Ok(StringCursor(<<105, 100, 45, 50>>))

\* ------------------------------------------------------------------------
\* Parsing of OffsetCursor (checked under SpecCodec)
\* ------------------------------------------------------------------------

\* the token on the wire is the base64 of a UTF-8 raw string
WireIsText == B64Decode(wire.v).some /\ ValidUtf8(B64Decode(wire.v).v)

\* the "||"-separated segments of the raw string on the wire, kind tag
\* included
WireParts == Split(B64Decode(wire.v).v, CURSOR_SEGMENT_DELIMITER)

\* C21 as stated: OffsetCursor parsing requires exactly 2 or 3 segments
\* after the kind tag; any other number of segments is rejected with
\* InvalidCursor, and an accepted count always parses to Ok.
C21_SegmentsAfterTag ==
    (DecodedAs("OffsetCursor") /\ WireIsText)
    => IF Len(WireParts) - 1 \in {2, 3}
       THEN decoded.v.result.kind = "Ok"
       ELSE decoded.v.result = Err(InvalidCursor)

\* C21 as amended: OffsetCursor parsing requires exactly 2 or 3 segments
\* with the kind tag counted, that is 1 or 2 after it; any
\* other number of segments is rejected with InvalidCursor, never a panic,
\* and an accepted count always parses to Ok.
C21_SegmentsWithTag ==
    (DecodedAs("OffsetCursor") /\ WireIsText)
    => IF Len(WireParts) \in {2, 3}
       THEN decoded.v.result.kind = "Ok"
       ELSE decoded.v.result = Err(InvalidCursor)

\* a raw string of the kind tag and three more segments was rejected
C21_Witness ==
    /\ DecodedAs("OffsetCursor")
    /\ WireIsText
    /\ Len(WireParts) = 4
    /\ WireParts[1] = TagOffset
    /\ decoded.v.result = Err(InvalidCursor)

\* the integer a segment of a client's token stands for: "7" is 7, "-2" is
\* -2, and the kind tags, the empty segment and the word "x" are no integer
SegmentNumber(seg) ==
    IF seg = <<55>> THEN Some(7)
    ELSE IF seg = <<45, 50>> THEN Some(-2)
    ELSE None

\* the wire holds a token of a client's own making, built from segments
ClientToken == wire.some /\ ~issued.some /\ WireIsText

\* C22: OffsetCursor numeric leniency. With an accepted segment count the
\* parse never fails because of field contents: an offset segment that is
\* no integer gives offset 0, a `first` segment that is absent or no
\* integer gives first None, and integer segments give their values.
C22_NumericLeniency ==
    (DecodedAs("OffsetCursor") /\ ClientToken /\ Len(WireParts) \in {2, 3})
    => /\ decoded.v.result.kind = "Ok"
       /\ decoded.v.result.val.offset
            = UnwrapOr(SegmentNumber(WireParts[2]), 0)
       /\ decoded.v.result.val.first
            = (IF Len(WireParts) = 2 THEN None
               ELSE SegmentNumber(WireParts[3]))

\* the raw string "offset||x||7" parsed to offset 0 and first 7
C22_Witness ==
    /\ DecodedAs("OffsetCursor")
    /\ ClientToken
    /\ WireParts = <<TagOffset, <<120>>, <<55>>>>
    /\ decoded.v.result = Ok(OffsetCursor(0, Some(7)))

\* C23: decoded offsets are non-negative. Every OffsetCursor that
\* from_encoded_string returns, for any input, has offset >= 0.
C23_DecodedOffsetNonNegative ==
    (DecodedAs("OffsetCursor") /\ decoded.v.result.kind = "Ok")
    => decoded.v.result.val.offset >= 0

\* ------------------------------------------------------------------------
\* Raw and wire forms of the cursors (checked under SpecCodec)
\* ------------------------------------------------------------------------

\* the decimal text of the integers that occur as cursor fields: one digit,
\* "10", "-1", "-3" and the two ends of the i32 range
DecimalText(n) ==
    IF n \in 0..9 THEN <<48 + n>>
    ELSE IF n = 10 THEN <<49, 48>>
    ELSE IF n = -1 THEN <<45, 49>>
    ELSE IF n = -3 THEN <<45, 51>>
    ELSE IF n = I32Max THEN <<50, 49, 52, 55, 52, 56, 51, 54, 52, 55>>
    ELSE <<45, 50, 49, 52, 55, 52, 56, 51, 54, 52, 56>>

\* "offset||<offset>||<first>", or "offset||<offset>" without a first
OffsetRawForm(offset, first) ==
    <<111, 102, 102, 115, 101, 116, 124, 124>> \o DecimalText(offset)
    \o (IF first.some THEN <<124, 124>> \o DecimalText(first.v) ELSE <<>>)

\* "string||<value>"
StringRawForm(value) == <<115, 116, 114, 105, 110, 103, 124, 124>> \o value

\* the raw form the claim gives for the cursor that was issued
IssuedRawForm ==
    IF issued.v.type = "OffsetCursor"
    THEN OffsetRawForm(issued.v.offset, issued.v.first)
    ELSE StringRawForm(issued.v.value)

\* "b2Zmc2V0fHwxfHwxMA==", the URL-safe base64 of "offset||1||10"
TokenOffset1First10 ==
    <<98, 50, 90, 109, 99, 50, 86, 48, 102, 72, 119, 120, 102, 72, 119, 120, 77, 65, 61, 61>>

C25_PageRequestNewRoundTrip ==
    /\ call.fn = "PageRequest::new" =>
          /\ ret.kind = "Ok"
          /\ ret.val.first = call.first
          /\ ~call.after.some => ret.val.after = None
          /\ call.after.some =>
                /\ ret.val.after.some
                /\ B64Decode(ret.val.after.v) = Some(to_raw_string(call.after.v))
    /\ (/\ call.fn = "new.parsed_cursor"
        /\ call.T = "OffsetCursor"
        /\ call.after.some
        /\ call.after.v.type = "OffsetCursor")
       => ret = Ok(Some(call.after.v))

\* the cursor {offset i32::MIN, first 10} came back from the page request
\* that PageRequest::new built for it
C25_Witness ==
    /\ call.fn = "new.parsed_cursor"
    /\ call.T = "OffsetCursor"
    /\ call.first = Some(1)
    /\ call.pr.first = Some(1)
    /\ call.after = Some(OffsetCursor(I32Min, Some(10)))
    /\ ret = Ok(Some(OffsetCursor(I32Min, Some(10))))

\* ------------------------------------------------------------------------
\* Edges and connections (checked under SpecProvider)
\* ------------------------------------------------------------------------

\* the literal "b2Zmc2V0OjA6MTA=" of edge_implementation_new
EdgeTestLiteral ==
    <<98, 50, 90, 109, 99, 50, 86, 48, 79, 106, 65, 54, 77, 84, 65, 61>>

\* C26: edge construction. RelayEdge::new(node, cursor) returns an edge
\* with that node and cursor = Some(cursor.to_encoded_string()), which for
\* OffsetCursor {offset 0, first 10} is Some("b2Zmc2V0OjA6MTA="), while
\* RelayEdge::new_raw_cursor(node, c) stores the optional string as given.
C26_EdgeConstruction ==
    /\ call.fn = "RelayEdge::new" =>
          /\ ret.val.node = call.node
          /\ ret.val.cursor = Some(B64Encode(to_raw_string(call.cursor)))
          /\ call.cursor = OffsetCursor(0, Some(10)) =>
                ret.val.cursor = Some(EdgeTestLiteral)
    /\ call.fn = "RelayEdge::new_raw_cursor" =>
          /\ ret.val.node = call.node
          /\ ret.val.cursor = call.cursor

\* C27: boundary cursors agree with edges. In every connection that
\* RelayConnection::new builds with either provider from a non-empty node
\* list, page_info.start_cursor is the cursor of the first edge and
\* page_info.end_cursor the cursor of the last edge; for an empty node list
\* the edges are empty and both boundary cursors are None.
C27_BoundaryCursorsAreEdgeCursors ==
    (call.fn = "RelayConnection::new" /\ ret.kind = "Ok")
    => /\ call.nodes # <<>> =>
             /\ ret.val.edges # <<>>
             /\ ret.val.page_info.start_cursor = ret.val.edges[1].cursor
             /\ ret.val.page_info.end_cursor
                  = ret.val.edges[Len(ret.val.edges)].cursor
       /\ call.nodes = <<>> =>
             /\ ret.val.edges = <<>>
             /\ ret.val.page_info.start_cursor = None
             /\ ret.val.page_info.end_cursor = None

\* a connection of two nodes requested after the cursor of offset 1 came
\* back with two different edge cursors, which are its boundary cursors
C27_Witness ==
    /\ call.fn = "RelayConnection::new"
    /\ call.provider = "OffsetCursorProvider"
    /\ Len(call.nodes) = 2
    /\ call.page_request.some
    /\ call.page_request.v.after = Some(OffsetToken(1))
    /\ ret.kind = "Ok"
    /\ ret.val.edges[1].cursor = Some(OffsetToken(2))
    /\ ret.val.edges[2].cursor = Some(OffsetToken(3))
    /\ ret.val.page_info.start_cursor = Some(OffsetToken(2))
    /\ ret.val.page_info.end_cursor = Some(OffsetToken(3))

\* ------------------------------------------------------------------------
\* Arithmetic of the offset provider (checked under SpecProvider)
\* ------------------------------------------------------------------------

\* C28: no integer overflow in the offset provider. For every decodable
\* `after` (any 32-bit offset, the maximum included), every `first` and
\* every item index, offset + adjust + item_idx in get_cursor_for_item and
\* offset + first in get_page_info stay within i32: neither operation
\* fails or wraps around.
C28_NoOverflow ==
    (/\ call.fn \in {"get_cursor_for_item", "get_page_info"}
     /\ call.provider = "OffsetCursorProvider"
     /\ AfterDecodes(call.metadata))
    => /\ call.fn = "get_cursor_for_item" =>
             /\ ret.kind = "Ok"
             /\ IsSum(ret.val.offset, DecodedAfter(call.metadata).offset,
                      1 + call.item_idx)
       /\ (call.fn = "get_page_info" /\ call.items # <<>>) =>
             /\ ret.kind = "Ok"
             /\ call.metadata.page_request.v.first.some =>
                   /\ DecodedAfter(call.metadata).offset
                        <= I32Max - call.metadata.page_request.v.first.v
                   /\ ret.val.has_next_page
                        = SumIsBelow(DecodedAfter(call.metadata).offset,
                                     call.metadata.page_request.v.first.v,
                                     call.metadata.total_count)

\* ------------------------------------------------------------------------
\* Properties of a pagination walk with the keyed provider (SpecKeyedWalk)
\* ------------------------------------------------------------------------

RECURSIVE NodesOfPages(_)
\* the nodes of the first k pages, in the order the client received them
NodesOfPages(k) ==
    IF k = 0 THEN <<>>
    ELSE NodesOfPages(k - 1)
         \o [j \in 1..Len(PageEdges(k)) |-> PageEdges(k)[j].node]

\* the client has received an empty page that says no page follows
KeyedWalkDone ==
    /\ pages # <<>>
    /\ pages[Len(pages)].result.kind = "Ok"
    /\ PageEdges(Len(pages)) = <<>>
    /\ ~PageInfoOf(Len(pages)).has_next_page

====
